---- MODULE Spec2Model ----
(***************************************************************************)
(* Model of builder.py (Kindle-Dash static site generator).                *)
(*                                                                         *)
(* Strings are sequences of one-character strings.  Each function of the   *)
(* script that the properties below speak about is modelled as a small     *)
(* sequential state machine: `fn` names the function being executed, `pc`  *)
(* the statement it is at, and pc = "return" / pc = "raised" are the two   *)
(* ways the call can end (normal return / exception escaping to caller).   *)
(***************************************************************************)
EXTENDS Integers, Sequences, FiniteSets, TLC

VARIABLES
    fn,               \* the function under execution
    pc,               \* position inside that function
    text,             \* translate_text / detect_language / add_ipa_to_word: the argument
    sentences,        \* translate_text: local `sentences`
    idx,              \* translate_text: position of the for loop in `sentences`
    current_chunk,    \* translate_text: local `current_chunk`
    translated_parts, \* translate_text: local `translated_parts`
    calls,            \* arguments received by translator.translate, in call order
    failed,           \* TRUE once a statement of the function has raised
    result,           \* value returned by the function (meaningful at pc = "return")
    source,           \* fetchers: what the remote service or the local file holds
    records,          \* fetchers: the local list (papers, repos, models, quotes, ...)
    env,              \* render_templates: state of the templates and of the file system
    written,          \* render_templates: the documents written to dist/
    lookup            \* add_ipa_to_word: outcome of ipa.convert

vars == <<fn, pc, text, sentences, idx, current_chunk, translated_parts,
          calls, failed, result, source, records, env, written, lookup>>

\* the variables translate_text does not touch
ioVars == <<source, records, env, written, lookup>>

\* the locals of translate_text
chunkVars == <<sentences, current_chunk, translated_parts, calls>>

(***************************************************************************)
(* Bounds                                                                  *)
(***************************************************************************)
\* Length budget of one translation call.  The script uses 4500; the chunking
\* code only compares lengths against it, so the model runs it scaled down.
ChunkLimit == 3
\* Longest text handed to translate_text.
MaxTextLen == 7

(***************************************************************************)
(* Strings                                                                 *)
(***************************************************************************)
\* ordinary character, period, space (whitespace), and the pipe character
Chars == {"a", ".", " ", "|"}

StringsUpTo(alphabet, n) == UNION {[1..k -> alphabet] : k \in 0..n}

RECURSIVE Concat(_)
\* ''.join(parts)
Concat(parts) ==
    IF parts = <<>> THEN <<>> ELSE Head(parts) \o Concat(Tail(parts))

RECURSIVE LStrip(_)
LStrip(s) == IF s # <<>> /\ Head(s) = " " THEN LStrip(Tail(s)) ELSE s

RECURSIVE RStrip(_)
RStrip(s) ==
    IF s # <<>> /\ s[Len(s)] = " " THEN RStrip(SubSeq(s, 1, Len(s) - 1)) ELSE s

\* str.strip()
Strip(s) == RStrip(LStrip(s))

RECURSIVE ReplaceDotSpace(_)
\* text.replace('. ', '.|'): non-overlapping occurrences, left to right
ReplaceDotSpace(s) ==
    IF Len(s) < 2 THEN s
    ELSE IF s[1] = "." /\ s[2] = " "
         THEN <<".", "|">> \o ReplaceDotSpace(SubSeq(s, 3, Len(s)))
         ELSE <<s[1]>> \o ReplaceDotSpace(Tail(s))

RECURSIVE SplitFrom(_, _)
\* helper of SplitPipe: `acc` is the piece being collected
SplitFrom(s, acc) ==
    IF s = <<>> THEN <<acc>>
    ELSE IF Head(s) = "|" THEN <<acc>> \o SplitFrom(Tail(s), <<>>)
         ELSE SplitFrom(Tail(s), Append(acc, Head(s)))

\* str.split('|'): one piece more than there are pipes, empty pieces kept
SplitPipe(s) == SplitFrom(s, <<>>)

\* sentences = text.replace('. ', '.|').split('|')
Sentences(t) == SplitPipe(ReplaceDotSpace(t))

RECURSIVE JoinWith(_, _)
\* sep.join(parts)
JoinWith(sep, parts) ==
    IF parts = <<>> THEN <<>>
    ELSE IF Len(parts) = 1 THEN Head(parts)
         ELSE Head(parts) \o sep \o JoinWith(sep, Tail(parts))

JoinNoSpace(parts) == JoinWith(<<>>, parts)

\* ' '.join(translated_parts)
JoinSpace(parts) == JoinWith(<<" ">>, parts)

(***************************************************************************)
(* translate_text                                                          *)
(***************************************************************************)
\* The remote translation capability as a test double: a successful call
\* maps every character to its image, so distinct chunks have distinct
\* translations and no translation contains a space.
TrChar == [c \in Chars |-> CASE c = "a" -> "A"
                             [] c = "." -> "o"
                             [] c = " " -> "_"
                             [] c = "|" -> "/"]

Translate(chunk) == [i \in 1..Len(chunk) |-> TrChar[chunk[i]]]

\* `not text or not text.strip()`
IsBlank(t) == t = <<>> \/ Strip(t) = <<>>

IsLongInclusive(t) == Len(t) >= ChunkLimit

\* `len(text) > 4500`
IsLong(t) == Len(t) > ChunkLimit

FitsInclusive(chunk, sentence) == Len(chunk) + Len(sentence) <= ChunkLimit

\* `len(current_chunk) + len(sentence) < 4500`
Fits(chunk, sentence) == Len(chunk) + Len(sentence) < ChunkLimit

PartialResult == JoinSpace(translated_parts)

\* `return ""` of the except clause
ExceptResult == <<>>

TranslateInit ==
    /\ fn = "translate_text"
    /\ pc = "entry"
    /\ text \in StringsUpTo(Chars, MaxTextLen)
    /\ sentences = <<>>
    /\ idx = 0
    /\ current_chunk = <<>>
    /\ translated_parts = <<>>
    /\ calls = <<>>
    /\ failed = FALSE
    /\ result = <<>>
    /\ source = <<>>
    /\ records = <<>>
    /\ env = <<>>
    /\ written = {}
    /\ lookup = "none"

\* lines 103-104
ReturnBlank ==
    /\ UNCHANGED ioVars
    /\ fn = "translate_text" /\ pc = "entry"
    /\ IsBlank(text)
    /\ result' = <<>>
    /\ pc' = "return"
    /\ UNCHANGED <<fn, text, sentences, idx, current_chunk, translated_parts,
                   calls, failed>>

\* lines 106-113: enter the try block, take the long branch and split
EnterLong ==
    /\ UNCHANGED ioVars
    /\ fn = "translate_text" /\ pc = "entry"
    /\ ~IsBlank(text)
    /\ IsLong(text)
    /\ sentences' = Sentences(text)
    /\ translated_parts' = <<>>
    /\ current_chunk' = <<>>
    /\ idx' = 1
    /\ pc' = "loop"
    /\ UNCHANGED <<fn, text, calls, failed, result>>

\* lines 106-109, 127: enter the try block, take the short branch
EnterShort ==
    /\ UNCHANGED ioVars
    /\ fn = "translate_text" /\ pc = "entry"
    /\ ~IsBlank(text)
    /\ ~IsLong(text)
    /\ pc' = "single"
    /\ UNCHANGED <<fn, text, sentences, idx, current_chunk, translated_parts,
                   calls, failed, result>>

\* line 128, the call returns
SingleOk ==
    /\ UNCHANGED ioVars
    /\ fn = "translate_text" /\ pc = "single"
    /\ calls' = Append(calls, text)
    /\ result' = Translate(text)
    /\ pc' = "return"
    /\ UNCHANGED <<fn, text, sentences, idx, current_chunk, translated_parts,
                   failed>>

\* line 128, the call raises
SingleRaise ==
    /\ UNCHANGED ioVars
    /\ fn = "translate_text" /\ pc = "single"
    /\ calls' = Append(calls, text)
    /\ failed' = TRUE
    /\ pc' = "except"
    /\ UNCHANGED <<fn, text, sentences, idx, current_chunk, translated_parts,
                   result>>

\* lines 115-117
LoopAppend ==
    /\ UNCHANGED ioVars
    /\ fn = "translate_text" /\ pc = "loop"
    /\ idx <= Len(sentences)
    /\ Fits(current_chunk, sentences[idx])
    /\ current_chunk' = current_chunk \o sentences[idx]
    /\ idx' = idx + 1
    /\ UNCHANGED <<fn, pc, text, sentences, translated_parts, calls, failed,
                   result>>

\* lines 118-121 with an empty current_chunk: nothing to flush
LoopStart ==
    /\ UNCHANGED ioVars
    /\ fn = "translate_text" /\ pc = "loop"
    /\ idx <= Len(sentences)
    /\ ~Fits(current_chunk, sentences[idx])
    /\ current_chunk = <<>>
    /\ current_chunk' = sentences[idx]
    /\ idx' = idx + 1
    /\ UNCHANGED <<fn, pc, text, sentences, translated_parts, calls, failed,
                   result>>

\* lines 118-121, the flush call returns
LoopFlushOk ==
    /\ UNCHANGED ioVars
    /\ fn = "translate_text" /\ pc = "loop"
    /\ idx <= Len(sentences)
    /\ ~Fits(current_chunk, sentences[idx])
    /\ current_chunk # <<>>
    /\ calls' = Append(calls, current_chunk)
    /\ translated_parts' = Append(translated_parts, Translate(current_chunk))
    /\ current_chunk' = sentences[idx]
    /\ idx' = idx + 1
    /\ UNCHANGED <<fn, pc, text, sentences, failed, result>>

\* lines 118-120, the flush call raises
LoopFlushRaise ==
    /\ UNCHANGED ioVars
    /\ fn = "translate_text" /\ pc = "loop"
    /\ idx <= Len(sentences)
    /\ ~Fits(current_chunk, sentences[idx])
    /\ current_chunk # <<>>
    /\ calls' = Append(calls, current_chunk)
    /\ failed' = TRUE
    /\ pc' = "except"
    /\ UNCHANGED <<fn, text, sentences, idx, current_chunk, translated_parts,
                   result>>

\* lines 123, 126: loop over, nothing left to flush
FinalEmpty ==
    /\ UNCHANGED ioVars
    /\ fn = "translate_text" /\ pc = "loop"
    /\ idx > Len(sentences)
    /\ current_chunk = <<>>
    /\ result' = JoinSpace(translated_parts)
    /\ pc' = "return"
    /\ UNCHANGED <<fn, text, sentences, idx, current_chunk, translated_parts,
                   calls, failed>>

\* lines 123-126: loop over, the last flush call returns
FinalFlushOk ==
    /\ UNCHANGED ioVars
    /\ fn = "translate_text" /\ pc = "loop"
    /\ idx > Len(sentences)
    /\ current_chunk # <<>>
    /\ calls' = Append(calls, current_chunk)
    /\ translated_parts' = Append(translated_parts, Translate(current_chunk))
    /\ result' = JoinSpace(translated_parts')
    /\ pc' = "return"
    /\ UNCHANGED <<fn, text, sentences, idx, current_chunk, failed>>

\* lines 123-124: loop over, the last flush call raises
FinalFlushRaise ==
    /\ UNCHANGED ioVars
    /\ fn = "translate_text" /\ pc = "loop"
    /\ idx > Len(sentences)
    /\ current_chunk # <<>>
    /\ calls' = Append(calls, current_chunk)
    /\ failed' = TRUE
    /\ pc' = "except"
    /\ UNCHANGED <<fn, text, sentences, idx, current_chunk, translated_parts,
                   result>>

\* lines 129-131
HandleException ==
    /\ UNCHANGED ioVars
    /\ fn = "translate_text" /\ pc = "except"
    /\ result' = ExceptResult
    /\ pc' = "return"
    /\ UNCHANGED <<fn, text, sentences, idx, current_chunk, translated_parts,
                   calls, failed>>

TranslateNext ==
    \/ ReturnBlank
    \/ EnterLong
    \/ EnterShort
    \/ SingleOk
    \/ SingleRaise
    \/ LoopAppend
    \/ LoopStart
    \/ LoopFlushOk
    \/ LoopFlushRaise
    \/ FinalEmpty
    \/ FinalFlushOk
    \/ FinalFlushRaise
    \/ HandleException

SpecTranslate == TranslateInit /\ [][TranslateNext]_vars

(***************************************************************************)
(* Properties of translate_text                                            *)
(***************************************************************************)
Returned(f) == fn = f /\ pc = "return"

AllSpaces(t) == \A i \in 1..Len(t) : t[i] = " "

HasPipe(t) == \E i \in 1..Len(t) : t[i] = "|"

\* number of occurrences of the delimiter ". " in t
CountDotSpace(t) ==
    Cardinality({i \in 1..(Len(t) - 1) : t[i] = "." /\ t[i + 1] = " "})

\* t with the space of every ". " removed
RECURSIVE DropSpaceAfterDot(_)
DropSpaceAfterDot(t) ==
    IF Len(t) < 2 THEN t
    ELSE IF t[1] = "." /\ t[2] = " "
         THEN <<".">> \o DropSpaceAfterDot(SubSeq(t, 3, Len(t)))
         ELSE <<t[1]>> \o DropSpaceAfterDot(Tail(t))

NonEmptyUnits(t) == {i \in 1..Len(Sentences(t)) : Sentences(t)[i] # <<>>}

UnitsTotal(t) == Len(Concat(Sentences(t)))

NoOversizedUnit(t) ==
    \A i \in 1..Len(Sentences(t)) : Len(Sentences(t)[i]) < ChunkLimit

C3_ChunksUnderLimit ==
    (fn = "translate_text" /\ Len(text) > ChunkLimit /\ NoOversizedUnit(text))
    => \A i \in 1..Len(calls) :
           calls[i] # <<>> /\ Len(calls[i]) < ChunkLimit

C3_Witness ==
    /\ ~HasPipe(text)
    /\ Returned("translate_text") /\ Len(text) > ChunkLimit
    /\ NoOversizedUnit(text) /\ ~failed
    /\ Len(calls) >= 3
    /\ \E i \in 1..Len(calls) : Len(calls[i]) = ChunkLimit - 1

\* C4: when a remote call raised (for the single call of a short text or for
\* any chunk of a long one) translate_text returns the empty string, never
\* the translations obtained before the failure, and does not raise.
C4_FailureYieldsEmpty ==
    (fn = "translate_text" /\ failed /\ pc \notin {"except"})
    => (pc = "return" /\ result = <<>>)

C4_Witness ==
    /\ ~HasPipe(text)
    /\ Returned("translate_text") /\ failed
    /\ Len(translated_parts) >= 1
    /\ idx <= Len(sentences)
    /\ result = <<>>

\* C5: for a text longer than the limit whose calls all succeed, the result
\* is the translations of the chunks joined by exactly one space, in the
\* order of the chunks in the text, each chunk translated exactly once.
C5_ResultIsSpaceJoined ==
    (Returned("translate_text") /\ Len(text) > ChunkLimit /\ ~failed)
    => /\ result = JoinWith(<<" ">>, [i \in 1..Len(calls) |-> Translate(calls[i])])
       /\ Len(result) = Len(Concat(calls))
                          + (IF calls = <<>> THEN 0 ELSE Len(calls) - 1)
       /\ \A i \in 1..Len(calls) : calls[i] # <<>>
       /\ ~AllSpaces(text) => Concat(calls) = Concat(Sentences(text))

C5_Witness ==
    /\ ~HasPipe(text)
    /\ Returned("translate_text") /\ Len(text) > ChunkLimit /\ ~failed
    /\ Len(calls) = 3
    /\ calls[1] # calls[2] /\ calls[2] # calls[3]

\* C6: a text no longer than the limit causes no remote invocation and
\* yields the empty string when it is empty or all whitespace, and exactly
\* one invocation, on the unmodified text, otherwise.
C6_ShortTextCallCount ==
    (fn = "translate_text" /\ pc \in {"return", "except"}
        /\ Len(text) <= ChunkLimit)
    => IF AllSpaces(text)
       THEN calls = <<>> /\ result = <<>>
       ELSE calls = <<text>>

C6_Witness ==
    /\ Returned("translate_text") /\ Len(text) = ChunkLimit
    /\ calls = <<text>> /\ result = Translate(text)
    /\ \E i \in 1..Len(text) : text[i] = " "

\* C10 as stated: for a text longer than the limit, units are cut only at
\* the occurrences of ". ", and the chunks sent, concatenated in order, are
\* the text with every ". " replaced by ".".
C10_SplitOnlyAtDotSpace ==
    (Returned("translate_text") /\ Len(text) > ChunkLimit /\ ~AllSpaces(text)
        /\ ~failed)
    => /\ Len(sentences) = CountDotSpace(text) + 1
       /\ Concat(calls) = DropSpaceAfterDot(text)

(***************************************************************************)
(* Source fetchers                                                         *)
(*                                                                         *)
(* `source` is what the fetcher finds: source.kind says whether the        *)
(* service or file can be read and what it holds, source.items is the      *)
(* sequence of entries it yields, each "ok" (the record is built) or "bad" *)
(* (fetching or processing that entry raises: a missing key, a None field, *)
(* an element that is no object, an unreadable file).  `records` is the    *)
(* local list; its type is "list" unless json.load bound it to something   *)
(* else.  translate_text and add_ipa_to_text, called while a record is     *)
(* built, return without raising.                                          *)
(***************************************************************************)
\* Largest number of entries of a feed, response, array or directory.
MaxRecords == 3

EmptyList == [type |-> "list", items |-> <<>>]

Entries == UNION {[1..k -> {"ok", "bad"}] : k \in 0..MaxRecords}

PlainArrays == {[i \in 1..k |-> "ok"] : k \in 0..MaxRecords}

LoopFetchers ==
    {"fetch_arxiv_papers", "fetch_github_trending", "load_quotes", "load_lyrics"}

PassThroughLoaders == {"load_mental_models", "load_words"}

Fetchers == LoopFetchers \cup PassThroughLoaders

\* what each fetcher can find
SourcesOf(f) ==
    CASE f = "fetch_arxiv_papers" ->
           {[kind |-> "feed", items |-> e] : e \in Entries}
      [] f = "fetch_github_trending" ->
           {[kind |-> k, items |-> <<>>] :
               k \in {"timeout", "request_error", "bad_payload"}}
           \cup {[kind |-> "response", items |-> e] : e \in Entries}
      [] f = "load_quotes" ->
           {[kind |-> k, items |-> <<>>] :
               k \in {"missing", "unreadable", "malformed", "object", "scalar"}}
           \cup {[kind |-> "array", items |-> e] : e \in Entries}
      [] f = "load_lyrics" ->
           {[kind |-> k, items |-> <<>>] : k \in {"missing", "unreadable"}}
           \cup {[kind |-> "directory", items |-> e] : e \in Entries}
      [] f \in PassThroughLoaders ->
           {[kind |-> k, items |-> <<>>] :
               k \in {"missing", "unreadable", "malformed"}}
           \cup {[kind |-> "scalar", items |-> <<>>]}
           \cup {[kind |-> k, items |-> e] :
                   k \in {"array", "object"}, e \in PlainArrays}

\* the source kinds on which the statements before the loop complete
Iterable == {"feed", "response", "array", "directory"}

FetchInit ==
    /\ fn \in Fetchers
    /\ pc = "entry"
    /\ source \in SourcesOf(fn)
    /\ records = EmptyList
    /\ idx = 0
    /\ failed = FALSE
    /\ result = EmptyList
    /\ text = <<>>
    /\ sentences = <<>>
    /\ current_chunk = <<>>
    /\ translated_parts = <<>>
    /\ calls = <<>>
    /\ env = <<>>
    /\ written = {}
    /\ lookup = "none"

fetchFrame == <<fn, source, text, chunkVars, env, written, lookup>>

AppendRecord(list, k) == [list EXCEPT !.items = Append(@, k)]

\* the value of the local list once an except clause has run: no clause
\* rebinds it
AfterExcept(list, k) == list

\* models = json.load(f): the local name is bound to whatever the file holds
Loaded(src) ==
    [type |-> IF src.kind = "array" THEN "list" ELSE src.kind,
     items |-> [i \in 1..Len(src.items) |-> i]]

\* the statements from `try:` up to the for loop
OpenSource(f) ==
    /\ fn = f /\ pc = "entry"
    /\ IF source.kind \in {"missing"}
       THEN \* the else branch of `if ...exists()`: a message, no exception
            /\ pc' = "end"
            /\ UNCHANGED failed
       ELSE IF source.kind \in Iterable
            THEN /\ pc' = "loop"
                 /\ UNCHANGED failed
            ELSE \* the request, open(), json.load or the iteration raises
                 \* (load_quotes on a JSON object or number: the loop
                 \* raises on its first element; the list is still empty)
                 /\ pc' = "except"
                 /\ failed' = TRUE
    /\ idx' = 1
    /\ UNCHANGED <<records, result>>
    /\ UNCHANGED fetchFrame

\* one iteration of the for loop that builds and appends a record
BuildRecord(f) ==
    /\ fn = f /\ pc = "loop"
    /\ idx <= Len(source.items)
    /\ source.items[idx] = "ok"
    /\ records' = AppendRecord(records, idx)
    /\ idx' = idx + 1
    /\ UNCHANGED <<pc, failed, result>>
    /\ UNCHANGED fetchFrame

\* one iteration of the for loop that raises before the append
RecordRaises(f) ==
    /\ fn = f /\ pc = "loop"
    /\ idx <= Len(source.items)
    /\ source.items[idx] = "bad"
    /\ failed' = TRUE
    /\ pc' = "except"
    /\ UNCHANGED <<idx, records, result>>
    /\ UNCHANGED fetchFrame

\* the for loop is exhausted: the success message
LoopDone(f) ==
    /\ fn = f /\ pc = "loop"
    /\ idx > Len(source.items)
    /\ pc' = "end"
    /\ UNCHANGED <<idx, failed, records, result>>
    /\ UNCHANGED fetchFrame

\* an except clause: it prints and falls through to the return statement
ExceptClause(f) ==
    /\ fn = f /\ pc = "except"
    /\ records' = AfterExcept(records, idx)
    /\ pc' = "end"
    /\ UNCHANGED <<idx, failed, result>>
    /\ UNCHANGED fetchFrame

\* the final `return <list>`
ReturnRecords(f) ==
    /\ fn = f /\ pc = "end"
    /\ result' = records
    /\ pc' = "return"
    /\ UNCHANGED <<idx, failed, records>>
    /\ UNCHANGED fetchFrame

\* load_mental_models / load_words, lines 270-275 and 401-407
LoadJson(f) ==
    /\ fn = f /\ pc = "entry"
    /\ CASE source.kind = "missing" ->
              /\ pc' = "end"
              /\ UNCHANGED <<records, failed>>
         [] source.kind \in {"unreadable", "malformed"} ->
              \* open() or json.load raises before the assignment
              /\ pc' = "except"
              /\ failed' = TRUE
              /\ UNCHANGED records
         [] source.kind \in {"array", "object"} ->
              /\ records' = Loaded(source)
              /\ pc' = "end"
              /\ UNCHANGED failed
         [] source.kind = "scalar" ->
              \* the assignment completes, then len() of a number raises
              /\ records' = Loaded(source)
              /\ pc' = "except"
              /\ failed' = TRUE
    /\ UNCHANGED <<idx, result>>
    /\ UNCHANGED fetchFrame

ArxivOpen == OpenSource("fetch_arxiv_papers")
ArxivBuild == BuildRecord("fetch_arxiv_papers")
ArxivRaises == RecordRaises("fetch_arxiv_papers")
ArxivLoopDone == LoopDone("fetch_arxiv_papers")
ArxivExcept == ExceptClause("fetch_arxiv_papers")
ArxivReturn == ReturnRecords("fetch_arxiv_papers")

GithubOpen == OpenSource("fetch_github_trending")
GithubBuild == BuildRecord("fetch_github_trending")
GithubRaises == RecordRaises("fetch_github_trending")
GithubLoopDone == LoopDone("fetch_github_trending")
GithubExcept == ExceptClause("fetch_github_trending")
GithubReturn == ReturnRecords("fetch_github_trending")

QuotesOpen == OpenSource("load_quotes")
QuotesBuild == BuildRecord("load_quotes")
QuotesRaises == RecordRaises("load_quotes")
QuotesLoopDone == LoopDone("load_quotes")
QuotesExcept == ExceptClause("load_quotes")
QuotesReturn == ReturnRecords("load_quotes")

LyricsOpen == OpenSource("load_lyrics")
LyricsBuild == BuildRecord("load_lyrics")
LyricsRaises == RecordRaises("load_lyrics")
LyricsLoopDone == LoopDone("load_lyrics")
LyricsExcept == ExceptClause("load_lyrics")
LyricsReturn == ReturnRecords("load_lyrics")

ModelsLoad == LoadJson("load_mental_models")
ModelsExcept == ExceptClause("load_mental_models")
ModelsReturn == ReturnRecords("load_mental_models")

WordsLoad == LoadJson("load_words")
WordsExcept == ExceptClause("load_words")
WordsReturn == ReturnRecords("load_words")

FetchNext ==
    \/ ArxivOpen \/ ArxivBuild \/ ArxivRaises \/ ArxivLoopDone
    \/ ArxivExcept \/ ArxivReturn
    \/ GithubOpen \/ GithubBuild \/ GithubRaises \/ GithubLoopDone
    \/ GithubExcept \/ GithubReturn
    \/ QuotesOpen \/ QuotesBuild \/ QuotesRaises \/ QuotesLoopDone
    \/ QuotesExcept \/ QuotesReturn
    \/ LyricsOpen \/ LyricsBuild \/ LyricsRaises \/ LyricsLoopDone
    \/ LyricsExcept \/ LyricsReturn
    \/ ModelsLoad \/ ModelsExcept \/ ModelsReturn
    \/ WordsLoad \/ WordsExcept \/ WordsReturn

SpecFetch == FetchInit /\ [][FetchNext]_vars

\* C1 as stated: whenever an internal error occurred during a fetcher's
\* execution (also while the k-th record was processed, also for a file
\* that holds no JSON array), the fetcher returns the empty list and does
\* not raise.
C1_ErrorYieldsEmptyList ==
    (fn \in Fetchers /\ pc \in {"return", "raised"}
        /\ (failed \/ source.kind \in {"object", "scalar"}))
    => (pc = "return" /\ result = EmptyList)

(***************************************************************************)
(* render_templates                                                        *)
(*                                                                         *)
(* env.dist_ok: DIST_DIR.mkdir and the stylesheet reads complete (they are *)
(* outside the try blocks);                                                *)
(* env.kindle_tpl / env.web_tpl: "ok", "missing" (get_template raises) or  *)
(* "broken" (render raises); env.kindle_writable / env.web_writable:       *)
(* whether write_text on the output document completes.                    *)
(***************************************************************************)
Environments ==
    [dist_ok : BOOLEAN,
     kindle_tpl : {"ok", "missing", "broken"},
     web_tpl : {"ok", "missing", "broken"},
     kindle_writable : BOOLEAN, web_writable : BOOLEAN]

RenderInit ==
    /\ fn = "render_templates"
    /\ pc = "entry"
    /\ env \in Environments
    /\ written = {}
    /\ failed = FALSE
    /\ result = <<>>
    /\ idx = 0
    /\ text = <<>>
    /\ sentences = <<>>
    /\ current_chunk = <<>>
    /\ translated_parts = <<>>
    /\ calls = <<>>
    /\ source = <<>>
    /\ records = <<>>
    /\ lookup = "none"

renderFrame ==
    <<fn, env, result, idx, text, chunkVars, source, records, lookup>>

AbortAfterKindleFailure == "raised"

\* where control goes after the except clause of the Kindle block
AfterKindleExcept == "web_get"

\* lines 426-442: nothing here is inside a try block
RenderSetup ==
    /\ fn = "render_templates" /\ pc = "entry"
    /\ pc' = IF env.dist_ok THEN "kindle_get" ELSE "raised"
    /\ failed' = ~env.dist_ok
    /\ UNCHANGED written
    /\ UNCHANGED renderFrame

\* line 446
KindleGetTemplate ==
    /\ fn = "render_templates" /\ pc = "kindle_get"
    /\ pc' = IF env.kindle_tpl = "missing" THEN "kindle_except" ELSE "kindle_render"
    /\ failed' = (env.kindle_tpl = "missing")
    /\ UNCHANGED written
    /\ UNCHANGED renderFrame

\* line 447
KindleRender ==
    /\ fn = "render_templates" /\ pc = "kindle_render"
    /\ pc' = IF env.kindle_tpl = "broken" THEN "kindle_except" ELSE "kindle_write"
    /\ failed' = (env.kindle_tpl = "broken")
    /\ UNCHANGED written
    /\ UNCHANGED renderFrame

\* lines 449-451
KindleWrite ==
    /\ fn = "render_templates" /\ pc = "kindle_write"
    /\ IF env.kindle_writable
       THEN /\ written' = written \cup {"kindle.html"}
            /\ pc' = "web_get"
            /\ UNCHANGED failed
       ELSE /\ pc' = "kindle_except"
            /\ failed' = TRUE
            /\ UNCHANGED written
    /\ UNCHANGED renderFrame

\* lines 452-453
KindleExcept ==
    /\ fn = "render_templates" /\ pc = "kindle_except"
    /\ pc' = AfterKindleExcept
    /\ UNCHANGED <<written, failed>>
    /\ UNCHANGED renderFrame

\* line 457
WebGetTemplate ==
    /\ fn = "render_templates" /\ pc = "web_get"
    /\ pc' = IF env.web_tpl = "missing" THEN "web_except" ELSE "web_render"
    /\ failed' = (failed \/ env.web_tpl = "missing")
    /\ UNCHANGED written
    /\ UNCHANGED renderFrame

\* line 458
WebRender ==
    /\ fn = "render_templates" /\ pc = "web_render"
    /\ pc' = IF env.web_tpl = "broken" THEN "web_except" ELSE "web_write"
    /\ failed' = (failed \/ env.web_tpl = "broken")
    /\ UNCHANGED written
    /\ UNCHANGED renderFrame

\* lines 460-462
WebWrite ==
    /\ fn = "render_templates" /\ pc = "web_write"
    /\ IF env.web_writable
       THEN /\ written' = written \cup {"index.html"}
            /\ pc' = "return"
            /\ UNCHANGED failed
       ELSE /\ pc' = "web_except"
            /\ failed' = TRUE
            /\ UNCHANGED written
    /\ UNCHANGED renderFrame

\* lines 463-464
WebExcept ==
    /\ fn = "render_templates" /\ pc = "web_except"
    /\ pc' = "return"
    /\ UNCHANGED <<written, failed>>
    /\ UNCHANGED renderFrame

RenderNext ==
    \/ RenderSetup
    \/ KindleGetTemplate
    \/ KindleRender
    \/ KindleWrite
    \/ KindleExcept
    \/ WebGetTemplate
    \/ WebRender
    \/ WebWrite
    \/ WebExcept

SpecRender == RenderInit /\ [][RenderNext]_vars

KindleStepsSucceed == env.kindle_tpl = "ok" /\ env.kindle_writable

WebStepsSucceed == env.web_tpl = "ok" /\ env.web_writable

\* C7: once the two try blocks are reached, render_templates returns without
\* raising whatever fails while a template is loaded, rendered or written,
\* and each of the two documents is written exactly when its own three steps
\* succeed, whether or not the other document failed.
C7_DocumentsIndependent ==
    (fn = "render_templates" /\ env.dist_ok)
    => /\ pc # "raised"
       /\ pc = "return" =>
            /\ ("kindle.html" \in written) <=> KindleStepsSucceed
            /\ ("index.html" \in written) <=> WebStepsSucceed

C7_Witness ==
    /\ fn = "render_templates" /\ pc = "return"
    /\ ~KindleStepsSucceed /\ WebStepsSucceed
    /\ written = {"index.html"}

(***************************************************************************)
(* detect_language                                                         *)
(***************************************************************************)
\* Longest text handed to detect_language.
MaxDetectLen == 10

\* "zh" stands for one character of U+4E00..U+9FFF, "a" for any other
\* non-space character, " " for the space U+0020
DetectChars == {"zh", "a", " "}

RECURSIVE CountOf(_, _)
CountOf(t, c) ==
    IF t = <<>> THEN 0
    ELSE (IF Head(t) = c THEN 1 ELSE 0) + CountOf(Tail(t), c)

RECURSIVE Remove(_, _)
\* t.replace(c, '') for a one-character c
Remove(t, c) ==
    IF t = <<>> THEN <<>>
    ELSE (IF Head(t) = c THEN <<>> ELSE <<Head(t)>>) \o Remove(Tail(t), c)

\* len(re.findall(r'[\u4e00-\u9fff]', text))
ChineseChars(t) == CountOf(t, "zh")

\* len(text.replace(' ', ''))
TotalChars(t) == Len(Remove(t, " "))

AtLeastThreshold(c, n) == c * 10 >= n * 3

\* `chinese_chars / total_chars > 0.3`.  The quotient is the double nearest
\* to c/n and 0.3 the double nearest to 3/10; rounding is monotonic and,
\* for the lengths of a text, c/n differs from 3/10 by far more than one
\* unit in the last place unless it equals it, so the comparison is the
\* exact one.
OverThreshold(c, n) == c * 10 > n * 3

DetectInit ==
    /\ fn = "detect_language"
    /\ pc = "entry"
    /\ text \in StringsUpTo(DetectChars, MaxDetectLen)
    /\ result = "none"
    /\ failed = FALSE
    /\ idx = 0
    /\ sentences = <<>>
    /\ current_chunk = <<>>
    /\ translated_parts = <<>>
    /\ calls = <<>>
    /\ source = <<>>
    /\ records = <<>>
    /\ env = <<>>
    /\ written = {}
    /\ lookup = "none"

pureFrame ==
    <<fn, text, idx, failed, chunkVars, source, records, env, written>>

\* lines 297-301
DetectNoChars ==
    /\ fn = "detect_language" /\ pc = "entry"
    /\ TotalChars(text) = 0
    /\ result' = "en"
    /\ pc' = "return"
    /\ UNCHANGED lookup
    /\ UNCHANGED pureFrame

\* lines 297-305
DetectChinese ==
    /\ fn = "detect_language" /\ pc = "entry"
    /\ TotalChars(text) # 0
    /\ OverThreshold(ChineseChars(text), TotalChars(text))
    /\ result' = "zh"
    /\ pc' = "return"
    /\ UNCHANGED lookup
    /\ UNCHANGED pureFrame

\* lines 297-306
DetectEnglish ==
    /\ fn = "detect_language" /\ pc = "entry"
    /\ TotalChars(text) # 0
    /\ ~OverThreshold(ChineseChars(text), TotalChars(text))
    /\ result' = "en"
    /\ pc' = "return"
    /\ UNCHANGED lookup
    /\ UNCHANGED pureFrame

DetectNext ==
    \/ DetectNoChars
    \/ DetectChinese
    \/ DetectEnglish

SpecDetect == DetectInit /\ [][DetectNext]_vars

CjkPositions(t) == {i \in 1..Len(t) : t[i] = "zh"}

NonSpacePositions(t) == {i \in 1..Len(t) : t[i] # " "}

\* C8: detect_language always returns; it returns 'zh' exactly when the
\* text has a non-space character and its CJK characters are strictly more
\* than 30% of its non-space characters, and 'en' otherwise (a fraction of
\* exactly 30%, an empty text and an all-space text included).
C8_ZhIffOverThirtyPercent ==
    (fn = "detect_language")
    => /\ pc = "entry" => ENABLED DetectNext
       /\ pc # "entry" =>
            /\ pc = "return"
            /\ result \in {"zh", "en"}
            /\ result = "zh" <=>
                 /\ Cardinality(NonSpacePositions(text)) >= 1
                 /\ 10 * Cardinality(CjkPositions(text))
                      > 3 * Cardinality(NonSpacePositions(text))

C8_Witness ==
    /\ Returned("detect_language")
    /\ Cardinality(CjkPositions(text)) = 3
    /\ Cardinality(NonSpacePositions(text)) = 10
    /\ result = "en"

(***************************************************************************)
(* add_ipa_to_word                                                         *)
(***************************************************************************)
\* Longest word handed to add_ipa_to_word.
MaxWordLen == 9

\* `len(clean_word) <= 7`
IpaMinLen == 7

\* a lower-case letter, an upper-case letter, and a character that is no
\* letter
WordChars == {"a", "B", "-"}

IsAlpha(c) == c \in {"a", "B"}

LowerChar(c) == IF c = "B" THEN "b" ELSE c

\* re.sub(r'[^a-zA-Z]', '', word)
CleanWord(w) == SelectSeq(w, IsAlpha)

\* str.lower()
Lower(w) == [i \in 1..Len(w) |-> LowerChar(w[i])]

\* what ipa.convert can do: raise, give back the word it was given, give
\* nothing, or give a transcription
LookupOutcomes == {"raise", "same", "empty", "other"}

\* the value of `phonetic` for the outcomes that return
Phonetic(w, outcome) ==
    CASE outcome = "same" -> Lower(CleanWord(w))
      [] outcome = "empty" -> <<>>
      [] outcome = "other" -> <<"'">> \o Lower(CleanWord(w))

\* f"{word}<sup class='ipa'>/{phonetic}/</sup>"
Annotated(w, phonetic) ==
    w \o <<"<sup class='ipa'>/">> \o phonetic \o <<"/</sup>">>

IsShortExclusive(w) == Len(CleanWord(w)) < IpaMinLen

\* `len(clean_word) <= 7`
IsShort(w) == Len(CleanWord(w)) <= IpaMinLen

\* `phonetic and phonetic != clean_word.lower()`
Differs(w, phonetic) == phonetic # <<>> /\ phonetic # Lower(CleanWord(w))

IpaInit ==
    /\ fn = "add_ipa_to_word"
    /\ pc = "entry"
    /\ text \in StringsUpTo(WordChars, MaxWordLen)
    /\ lookup = "none"
    /\ result = <<>>
    /\ failed = FALSE
    /\ idx = 0
    /\ sentences = <<>>
    /\ current_chunk = <<>>
    /\ translated_parts = <<>>
    /\ calls = <<>>
    /\ source = <<>>
    /\ records = <<>>
    /\ env = <<>>
    /\ written = {}

ipaFrame == <<fn, text, idx, chunkVars, source, records, env, written>>

\* lines 63-65
IpaShortWord ==
    /\ fn = "add_ipa_to_word" /\ pc = "entry"
    /\ IsShort(text)
    /\ result' = text
    /\ pc' = "return"
    /\ UNCHANGED <<lookup, failed>>
    /\ UNCHANGED ipaFrame

\* lines 67-68, 71-74: ipa.convert raises, the except clause passes
IpaLookupRaises ==
    /\ fn = "add_ipa_to_word" /\ pc = "entry"
    /\ ~IsShort(text)
    /\ lookup' = "raise"
    /\ failed' = TRUE
    /\ result' = text
    /\ pc' = "return"
    /\ UNCHANGED ipaFrame

\* lines 67-70, 74: ipa.convert returns
IpaLookupReturns ==
    /\ fn = "add_ipa_to_word" /\ pc = "entry"
    /\ ~IsShort(text)
    /\ \E outcome \in LookupOutcomes \ {"raise"} :
          /\ lookup' = outcome
          /\ result' = IF Differs(text, Phonetic(text, outcome))
                       THEN Annotated(text, Phonetic(text, outcome))
                       ELSE text
    /\ pc' = "return"
    /\ UNCHANGED failed
    /\ UNCHANGED ipaFrame

IpaNext ==
    \/ IpaShortWord
    \/ IpaLookupRaises
    \/ IpaLookupReturns

SpecIpa == IpaInit /\ [][IpaNext]_vars

LetterPositions(w) == {i \in 1..Len(w) : w[i] \in {"a", "B"}}

\* C9: add_ipa_to_word never raises, and it returns the word unchanged when
\* the word has at most 7 letters, and when it has more and the lookup of
\* its lower-cased letters raises or gives those lower-cased letters back.
C9_UnchangedWord ==
    (fn = "add_ipa_to_word")
    => /\ pc = "entry" => ENABLED IpaNext
       /\ pc # "entry" =>
            /\ pc = "return"
            /\ (Cardinality(LetterPositions(text)) <= 7
                  \/ lookup \in {"raise", "same"})
               => result = text

C9_Witness ==
    /\ Returned("add_ipa_to_word")
    /\ Cardinality(LetterPositions(text)) = 7
    /\ Len(text) > 7
    /\ result = text

C9_WitnessLong ==
    /\ Returned("add_ipa_to_word")
    /\ Cardinality(LetterPositions(text)) > 7
    /\ lookup = "same"
    /\ result = text

====
